---- MODULE Spec2Model ----
(***************************************************************************)
(* Catalog engine of the notes portal (class NotesPortal).                 *)
(*                                                                         *)
(* File names are sequences of one-character strings so that the string    *)
(* operations of the code (toUpperCase, includes, startsWith, endsWith,    *)
(* the regular expressions of extractFileNumber, localeCompare) are        *)
(* computed character by character.                                        *)
(***************************************************************************)
EXTENDS Integers, Sequences, FiniteSets, TLC

(***************************************************************************)
(* Characters and strings                                                  *)
(***************************************************************************)
UpperSeq ==
  <<"A","B","C","D","E","F","G","H","I","J","K","L","M",
    "N","O","P","Q","R","S","T","U","V","W","X","Y","Z">>

LowerSeq ==
  <<"a","b","c","d","e","f","g","h","i","j","k","l","m",
    "n","o","p","q","r","s","t","u","v","w","x","y","z">>

DigitSeq ==
  <<"0","1","2","3","4","5","6","7","8","9">>

\* punctuation of the model alphabet in collation order (before digits)
PunctSeq ==
  <<" ","_","-",".","/">>

SeqRange(s) ==
  {s[i] : i \in 1..Len(s)}

UpperSet ==
  SeqRange(UpperSeq)

LowerSet ==
  SeqRange(LowerSeq)

DigitSet ==
  SeqRange(DigitSeq)

IndexIn(s, c) ==
  CHOOSE i \in 1..Len(s) : s[i] = c

IsLetter(c) ==
  c \in UpperSet \/ c \in LowerSet

IsDigit(c) ==
  c \in DigitSet

\* the regular-expression class \s, restricted to the model alphabet
IsSpace(c) ==
  c = " "

SetMin(S) ==
  CHOOSE x \in S : \A y \in S : x <= y

\* s[i], or the empty string past either end of s
CharAt(s, i) ==
  IF i \in 1..Len(s) THEN s[i] ELSE ""

ToUpperChar(c) ==
  IF c \in LowerSet THEN UpperSeq[IndexIn(LowerSeq, c)] ELSE c

ToLowerChar(c) ==
  IF c \in UpperSet THEN LowerSeq[IndexIn(UpperSeq, c)] ELSE c

toUpperCase(s) ==
  [i \in 1..Len(s) |-> ToUpperChar(s[i])]

toLowerCase(s) ==
  [i \in 1..Len(s) |-> ToLowerChar(s[i])]

MatchAt(s, sub, i) ==
  /\ i >= 1
  /\ i + Len(sub) - 1 <= Len(s)
  /\ \A j \in 1..Len(sub) : s[i + j - 1] = sub[j]

includes(s, sub) ==
  \E i \in 1..(Len(s) - Len(sub) + 1) : MatchAt(s, sub, i)

startsWith(s, sub) ==
  MatchAt(s, sub, 1)

endsWith(s, sub) ==
  MatchAt(s, sub, Len(s) - Len(sub) + 1)

\* primary collation rank of a character: punctuation < digits < letters,
\* upper and lower case of one letter share the rank
CharRank(c) ==
  IF c \in SeqRange(PunctSeq) THEN IndexIn(PunctSeq, c)
  ELSE IF c \in DigitSet THEN 10 + IndexIn(DigitSeq, c)
  ELSE IF c \in LowerSet THEN 30 + IndexIn(LowerSeq, c)
  ELSE IF c \in UpperSet THEN 30 + IndexIn(UpperSeq, c)
  ELSE 99

RECURSIVE PrimaryCompare(_, _, _)
PrimaryCompare(a, b, i) ==
  IF i > Len(a) /\ i > Len(b) THEN 0
  ELSE IF i > Len(a) THEN -1
  ELSE IF i > Len(b) THEN 1
  ELSE IF CharRank(a[i]) < CharRank(b[i]) THEN -1
  ELSE IF CharRank(a[i]) > CharRank(b[i]) THEN 1
  ELSE PrimaryCompare(a, b, i + 1)

\* case tie-break: the lower-case form sorts first
RECURSIVE CaseCompare(_, _, _)
CaseCompare(a, b, i) ==
  IF i > Len(a) \/ i > Len(b) THEN 0
  ELSE IF a[i] = b[i] THEN CaseCompare(a, b, i + 1)
  ELSE IF a[i] \in LowerSet THEN -1
  ELSE 1

\* String.prototype.localeCompare: -1, 0 or 1
localeCompare(a, b) ==
  LET p == PrimaryCompare(a, b, 1)
  IN  IF p # 0 THEN p ELSE CaseCompare(a, b, 1)

(***************************************************************************)
(* Categories                                                              *)
(***************************************************************************)
\* the keys of this.categories, in insertion order
CategoryKeys ==
  <<"DC", "DA", "RLM", "PT", "MT", "DPP", "DP", "INF", "GERAL">>

CategorySet ==
  SeqRange(CategoryKeys)

KeyChars ==
  [DPP |-> <<"D","P","P">>, DC |-> <<"D","C">>, DA |-> <<"D","A">>,
   RLM |-> <<"R","L","M">>, PT |-> <<"P","T">>, MT |-> <<"M","T">>,
   DP |-> <<"D","P">>, INF |-> <<"I","N","F">>,
   GERAL |-> <<"G","E","R","A","L">>]

\* the priority list with DP in front of DPP
categoryPriorityDPFirst ==
  <<"DP", "DPP", "DC", "DA", "RLM", "PT", "MT", "INF">>

categoryPriority ==
  <<"DPP", "DC", "DA", "RLM", "PT", "MT", "DP", "INF">>

\* a match on the bare code, wherever it sits in the name
CategoryMatchesAnywhere(upperFileName, categoryKey) ==
  includes(upperFileName, KeyChars[categoryKey])

CategoryMatches(upperFileName, categoryKey) ==
  LET c == KeyChars[categoryKey]
  IN  \/ includes(upperFileName, <<"_">> \o c \o <<"_">>)
      \/ includes(upperFileName, <<"-">> \o c \o <<"-">>)
      \/ includes(upperFileName, <<" ">> \o c \o <<" ">>)
      \/ startsWith(upperFileName, c \o <<"_">>)
      \/ startsWith(upperFileName, c \o <<"-">>)

\* detectFileCategory without its final return 'GERAL'
detectFileCategoryNoDefault(name) ==
  LET upperFileName == toUpperCase(name)
      hits == {i \in 1..Len(categoryPriority) :
                 CategoryMatches(upperFileName, categoryPriority[i])}
  IN  IF hits = {} THEN "undefined" ELSE categoryPriority[SetMin(hits)]

detectFileCategory(fileName) ==
  LET upperFileName == toUpperCase(fileName)
      hits == {i \in 1..Len(categoryPriority) :
                 CategoryMatches(upperFileName, categoryPriority[i])}
  IN  IF hits = {} THEN "GERAL" ELSE categoryPriority[SetMin(hits)]

(***************************************************************************)
(* extractFileNumber                                                       *)
(***************************************************************************)
\* length of the longest run of characters of class digit / letter / space
\* that starts at position i
DigitRunLen(s, i) ==
  SetMin({j \in i..(Len(s) + 1) : ~IsDigit(CharAt(s, j))}) - i

LetterRunLen(s, i) ==
  SetMin({j \in i..(Len(s) + 1) : ~IsLetter(CharAt(s, j))}) - i

SpaceRunLen(s, i) ==
  SetMin({j \in i..(Len(s) + 1) : ~IsSpace(CharAt(s, j))}) - i

\* parseInt(s.substr(i, n), 10) for a run of n digits starting at i
RECURSIVE ParseInt(_, _, _)
ParseInt(s, i, n) ==
  IF n = 0 THEN 0
  ELSE 10 * ParseInt(s, i, n - 1) + (IndexIn(DigitSeq, s[i + n - 1]) - 1)

\* fileName.replace(/\.html?$/i, '')
StripExtension(fileName) ==
  LET low == toLowerCase(fileName)
  IN  IF endsWith(low, <<".","h","t","m","l">>)
        THEN SubSeq(fileName, 1, Len(fileName) - 5)
      ELSE IF endsWith(low, <<".","h","t","m">>)
        THEN SubSeq(fileName, 1, Len(fileName) - 4)
      ELSE fileName

\* \d{3,4} is greedy: four digits when the run has four, else three
Take34(run) ==
  IF run >= 4 THEN 4 ELSE 3

\* /_([A-Z]+)_(\d{3,4})/i : start positions of a match, and where the
\* number group of the match at i begins
P1At(s, i) ==
  LET L == LetterRunLen(s, i + 1)
  IN  /\ CharAt(s, i) = "_"
      /\ L >= 1
      /\ CharAt(s, i + 1 + L) = "_"
      /\ DigitRunLen(s, i + 2 + L) >= 3

P1Num(s, i) ==
  LET d == i + 2 + LetterRunLen(s, i + 1)
  IN  ParseInt(s, d, Take34(DigitRunLen(s, d)))

\* /([A-Z]+)-(\d{3,4})/i
P2At(s, i) ==
  LET L == LetterRunLen(s, i)
  IN  /\ L >= 1
      /\ CharAt(s, i + L) = "-"
      /\ DigitRunLen(s, i + L + 1) >= 3

P2Num(s, i) ==
  LET d == i + LetterRunLen(s, i) + 1
  IN  ParseInt(s, d, Take34(DigitRunLen(s, d)))

\* /([A-Z]+)\s+(\d{3,4})/i
P3At(s, i) ==
  LET L == LetterRunLen(s, i)
      W == SpaceRunLen(s, i + L)
  IN  /\ L >= 1
      /\ W >= 1
      /\ DigitRunLen(s, i + L + W) >= 3

P3Num(s, i) ==
  LET L == LetterRunLen(s, i)
      d == i + L + SpaceRunLen(s, i + L)
  IN  ParseInt(s, d, Take34(DigitRunLen(s, d)))

\* /(\d{3,4})(?:\s|[-_]|$)/
P4At(s, i) ==
  LET R == DigitRunLen(s, i)
  IN  /\ R \in {3, 4}
      /\ \/ i + R > Len(s)
         \/ CharAt(s, i + R) \in {" ", "-", "_"}

P4Num(s, i) ==
  ParseInt(s, i, DigitRunLen(s, i))

\* /(\d{3,})/
P5At(s, i) ==
  DigitRunLen(s, i) >= 3

\* /(\d{2,})/ in the place of /(\d+)/
AnyNumberAtTwoDigits(s, i) ==
  DigitRunLen(s, i) >= 2

\* /(\d+)/
AnyNumberAt(s, i) ==
  DigitRunLen(s, i) >= 1

\* extractFileNumber with the plain digit run tried before the patterns
extractFileNumberDigitsFirst(name) ==
  LET baseName == StripExtension(name)
      m6 == {i \in 1..Len(baseName) : AnyNumberAt(baseName, i)}
  IN  IF m6 # {} THEN P4Num(baseName, SetMin(m6)) ELSE 9999

extractFileNumber(fileName) ==
  LET baseName == StripExtension(fileName)
      pos == 1..Len(baseName)
      m1 == {i \in pos : P1At(baseName, i)}
      m2 == {i \in pos : P2At(baseName, i)}
      m3 == {i \in pos : P3At(baseName, i)}
      m4 == {i \in pos : P4At(baseName, i)}
      m5 == {i \in pos : P5At(baseName, i)}
      m6 == {i \in pos : AnyNumberAt(baseName, i)}
  IN  IF m1 # {} THEN P1Num(baseName, SetMin(m1))
      ELSE IF m2 # {} THEN P2Num(baseName, SetMin(m2))
      ELSE IF m3 # {} THEN P3Num(baseName, SetMin(m3))
      ELSE IF m4 # {} THEN P4Num(baseName, SetMin(m4))
      ELSE IF m5 # {} THEN P4Num(baseName, SetMin(m5))
      ELSE IF m6 # {} THEN P4Num(baseName, SetMin(m6))
      ELSE 9999

(***************************************************************************)
(* Sample file names and source data                                       *)
(***************************************************************************)
N_RLM001 ==
  <<"2","0","2","5","_","R","L","M","_","0","0","1"," ","-"," ","e",".","h","t","m","l">>

N_DC001 ==
  <<"2","0","2","5","_","D","C","_","0","0","1"," ","-"," ","i",".","h","t","m","l">>

N_DC005 ==
  <<"2","0","2","5","_","D","C","_","0","0","5","-"," ","t",".","h","t","m","l">>

N_DP001 ==
  <<"2","0","2","5","_","D","P","_","0","0","1"," ","-"," ","i",".","h","t","m","l">>

N_DPP001 ==
  <<"2","0","2","5","_","D","P","P","_","0","0","1"," ","-"," ","x",".","h","t","m","l">>

N_ACAO ==
  <<"A","c","a","o"," ","p","o","p","u","l","a","r",".","h","t","m","l">>

N_EXEMPLO ==
  <<"e","x","e","m","p","l","o","-","n","o","t","a",".","h","t","m","l">>

N_README ==
  <<"R","E","A","D","M","E",".","m","d">>

N_OLD ==
  <<"o","l","d">>

\* the literal knownFiles of loadLocalFiles, reduced to one name of each
\* shape it contains and kept in the order of the source (RLM, DC, DP)
knownFiles ==
  <<N_RLM001, N_DC001, N_DC005, N_DP001>>

\* the literal allKnownFiles of debugLocalFiles, reduced likewise
allKnownFiles ==
  <<N_DC001, N_DC005, N_DP001, N_EXEMPLO>>

\* bodies the remote listing endpoint can answer with: arrays of
\* {name, type} entries
Entry(n, t) ==
  [name |-> n, type |-> t]

RemoteListings ==
  { <<>>,
    <<Entry(N_OLD, "dir"), Entry(N_README, "file")>>,
    <<Entry(N_EXEMPLO, "file"), Entry(N_OLD, "dir"), Entry(N_ACAO, "file"),
      Entry(N_DPP001, "file")>> }

\* every file name of the sources above
NamePool ==
  SeqRange(knownFiles) \cup SeqRange(allKnownFiles)
    \cup UNION {{l[i].name : i \in 1..Len(l)} : l \in RemoteListings}

\* the values of the pure functions on the names and keys that occur
Tables ==
  [category |-> [n \in NamePool |-> detectFileCategory(n)],
   number |-> [n \in NamePool |-> extractFileNumber(n)],
   names |-> [a \in NamePool, b \in NamePool |-> localeCompare(a, b)],
   keys |-> [a \in CategorySet, b \in CategorySet |->
               localeCompare(KeyChars[a], KeyChars[b])]]

(***************************************************************************)
(* Time                                                                    *)
(***************************************************************************)
cacheDuration ==
  300000

PersistedMaxAge ==
  3600000

\* the delay of loadLocalFiles
LoadDelay ==
  500

\* Date.now() when the page is constructed
Now0 ==
  PersistedMaxAge + (2 * cacheDuration)

\* amounts by which the clock advances between two events
Deltas ==
  {cacheDuration - 1, cacheDuration}

\* number of events of one session: user input, timer callbacks, calls of
\* the public methods, clock advances; the settling of an awaited promise
\* is not counted
MaxEvents ==
  2

\* number of loadFiles runs that can be in flight together
MaxRuns ==
  2

\* number of interval timers created during one session
MaxTimers ==
  2

\* length of the lists categorizeFiles is called with on its own
MaxFiles ==
  3

(***************************************************************************)
(* State of one page session                                               *)
(***************************************************************************)
VARIABLES
  files,               \* this.files
  categories,          \* this.categories[key].files, per key
  activeCategory,      \* this.activeCategory
  lastUpdate,          \* this.lastUpdate, 0 for null
  currentRepo,         \* this.currentRepo
  location,            \* window.location
  endpointDown,        \* the remote listing endpoint never answers
  storageFull,         \* localStorage.setItem throws: the quota is used up
  now,                 \* Date.now()
  events,              \* number of events handled so far
  store,               \* localStorage['notes-portal-cache']
  runs,                \* the loadFiles runs in flight, by slot
  loadingState,        \* filesContainer has class 'loading-state'
  view,                \* what filesContainer shows
  autoUpdateInterval,  \* this.autoUpdateInterval, 0 for null/undefined
  timers,              \* the live interval timers of the page
  hidden,              \* document.hidden
  online,              \* navigator.onLine
  unhandledRejection,  \* a loadFiles promise was rejected
  memo,                \* the pure functions, computed once per session
  fileName,            \* the argument of a call of a pure method
  returned             \* what the calls on fileName have returned

vars ==
  <<files, categories, activeCategory, lastUpdate, currentRepo, location,
    endpointDown, storageFull, now, events, store, runs, loadingState, view,
    autoUpdateInterval, timers, hidden, online, unhandledRejection, memo,
    fileName, returned>>

\* the variables the handlers of a session leave alone: the execution
\* context, and the record of the calls that are looked at on their own
envVars ==
  <<currentRepo, location, endpointDown, storageFull, memo, fileName,
    returned>>

\* detectFileCategory(n), extractFileNumber(n), a.localeCompare(b)
categoryOf ==
  memo.category

numberOf ==
  memo.number

nameCompare ==
  memo.names

keyCompare ==
  memo.keys

catalogVars ==
  <<files, categories, lastUpdate>>

timerVars ==
  <<autoUpdateInterval, timers>>

RunIds ==
  1..MaxRuns

InFlight ==
  {r \in RunIds : runs[r].pc # "idle"}

FreeSlots ==
  RunIds \ InFlight

(***************************************************************************)
(* Sorting: Array.prototype.sort is stable                                 *)
(***************************************************************************)
Sign(n) ==
  IF n < 0 THEN -1 ELSE IF n > 0 THEN 1 ELSE 0

\* comparator of loadLocalFiles and debugLocalFiles
CompareLocal(a, b) ==
  LET numA == numberOf[a.name]
      numB == numberOf[b.name]
  IN  IF numA # numB THEN Sign(numA - numB) ELSE nameCompare[a.name, b.name]

\* the bucket comparator without its second criterion
CompareBucketNumberOnly(a, b) ==
  Sign(a.numericOrder - b.numericOrder)

\* comparator of the bucket sort of categorizeFiles
CompareBucket(a, b) ==
  IF a.numericOrder # b.numericOrder
    THEN Sign(a.numericOrder - b.numericOrder)
    ELSE nameCompare[a.name, b.name]

\* the comparator of the main list with the number as its first criterion
CompareFlatNumberFirst(a, b) ==
  IF numberOf[a.name] # numberOf[b.name]
    THEN Sign(numberOf[a.name] - numberOf[b.name])
    ELSE keyCompare[categoryOf[a.name], categoryOf[b.name]]

\* comparator of the sort of the main list in categorizeFiles
CompareFlat(a, b) ==
  LET categoryA == categoryOf[a.name]
      categoryB == categoryOf[b.name]
      numA == numberOf[a.name]
      numB == numberOf[b.name]
  IN  IF categoryA = categoryB /\ numA # numB
        THEN Sign(numA - numB)
        ELSE keyCompare[categoryA, categoryB]

\* comparator of the sort of loadFromGitHub in unnamed/part_000
CompareName(a, b) ==
  nameCompare[a.name, b.name]

Compare(mode, a, b) ==
  CASE mode = "local" -> CompareLocal(a, b)
    [] mode = "bucket" -> CompareBucket(a, b)
    [] mode = "flat" -> CompareFlat(a, b)
    [] mode = "name" -> CompareName(a, b)

\* x goes before the first element it is strictly smaller than
InsertSorted(mode, sorted, x) ==
  LET later == {j \in 1..Len(sorted) : Compare(mode, x, sorted[j]) < 0}
  IN  IF later = {} THEN Append(sorted, x)
      ELSE LET j == SetMin(later)
           IN  SubSeq(sorted, 1, j - 1) \o <<x>> \o SubSeq(sorted, j, Len(sorted))

\* insertion from left to right; the bound names hold values, so that no
\* argument is computed again at each of its uses
RECURSIVE SortValue(_, _)
SortValue(mode, v) ==
  IF v = <<>> THEN <<>>
  ELSE CHOOSE r \in {InsertSorted(mode, sorted, x) :
                       sorted \in {SortValue(mode, SubSeq(v, 1, Len(v) - 1))},
                       x \in {v[Len(v)]}} : TRUE

StableSort(mode, s) ==
  CHOOSE r \in {SortValue(mode, v) : v \in {s}} : TRUE

(***************************************************************************)
(* Execution context and extractRepoInfo                                   *)
(***************************************************************************)
Location(h, path, proto) ==
  [hostname |-> h, pathname |-> path, protocol |-> proto]

\* s.split(sep)
RECURSIVE Split(_, _)
Split(s, sep) ==
  IF \A i \in 1..Len(s) : s[i] # sep THEN <<s>>
  ELSE LET k == SetMin({i \in 1..Len(s) : s[i] = sep})
       IN  <<SubSeq(s, 1, k - 1)>> \o Split(SubSeq(s, k + 1, Len(s)), sep)

\* pathname.split('/').filter(p => p)
PathParts(pathname) ==
  SelectSeq(Split(pathname, "/"), LAMBDA p : p # <<>>)

\* window.location of the sessions explored: a development host, a
\* project page and an unrelated host
Locations ==
  { Location(<<"l","o","c","a","l","h","o","s","t">>, <<"/">>, "http:"),
    Location(<<"u",".","g","i","t","h","u","b",".","i","o">>,
             <<"/","r","/">>, "https:"),
    Location(<<"e","x","a","m","p","l","e",".","c","o","m">>, <<"/">>, "https:") }

\* hostname.split('.')[0]
FirstLabel(h) ==
  SubSeq(h, 1, SetMin({j \in 1..(Len(h) + 1) : CharAt(h, j) \in {".", ""}}) - 1)

LocalRepo ==
  [owner |-> <<"l","o","c","a","l">>,
   repo |-> <<"d","e","v","_","n","o","t","e","s">>,
   branch |-> "main", isLocal |-> TRUE, useGitHubAPI |-> FALSE]

extractRepoInfo(loc) ==
  LET hostname == loc.hostname
      isLocalEnvironment ==
        \/ hostname = <<"l","o","c","a","l","h","o","s","t">>
        \/ hostname = <<"1","2","7",".","0",".","0",".","1">>
        \/ includes(hostname, <<"l","o","c","a","l">>)
        \/ loc.protocol = "file:"
        \/ hostname = <<>>
        \/ ~includes(hostname, <<".">>)
      owner == FirstLabel(hostname)
  IN  IF isLocalEnvironment THEN LocalRepo
      ELSE IF endsWith(hostname, <<".","g","i","t","h","u","b",".","i","o">>)
        THEN [owner |-> owner,
              repo |-> IF PathParts(loc.pathname) # <<>>
                         THEN PathParts(loc.pathname)[1]
                       ELSE owner \o <<".","g","i","t","h","u","b",".","i","o">>,
              branch |-> "main", isLocal |-> FALSE, useGitHubAPI |-> TRUE]
      ELSE LocalRepo

(***************************************************************************)
(* Records                                                                 *)
(***************************************************************************)
\* a descriptor of this.files; the static path sets no source field
FileRec(n, src) ==
  [name |-> n, source |-> src]

\* a bucket member whose category field is the default key
BucketRecDefaultKey(f) ==
  [name |-> f.name, source |-> f.source,
   category |-> "GERAL",
   numericOrder |-> numberOf[f.name]]

\* a member of this.categories[key].files
BucketRec(f) ==
  [name |-> f.name, source |-> f.source,
   category |-> categoryOf[f.name],
   numericOrder |-> numberOf[f.name]]

MapSeq(s, Op(_)) ==
  [i \in 1..Len(s) |-> Op(s[i])]

\* the value of localStorage['notes-portal-cache']
StoreAbsent ==
  [kind |-> "absent", files |-> <<>>, timestamp |-> 0]

StoreGarbage ==
  [kind |-> "garbage", files |-> <<>>, timestamp |-> 0]

StoreEntry(f, t) ==
  [kind |-> "entry", files |-> f, timestamp |-> t]

\* the text "null"
StoreNull ==
  [kind |-> "null", files |-> <<>>, timestamp |-> 0]

\* the text of an object without properties, "{}"
StoreBare ==
  [kind |-> "bare", files |-> <<>>, timestamp |-> 0]

\* the text of an object with files and no timestamp
StoreUntimed(f) ==
  [kind |-> "untimed", files |-> f, timestamp |-> 0]

\* what an earlier session may have left in the store: nothing, an entry
\* older than the maximum age, text that does not parse
InitialStores ==
  { StoreAbsent,
    StoreEntry(<<FileRec(N_ACAO, "github-api")>>, Now0 - PersistedMaxAge - 1),
    StoreGarbage }

EmptyCategories ==
  [k \in CategorySet |-> <<>>]

\* what getCachedData returns: null, undefined, or the files of the entry
Null ==
  [kind |-> "null", files |-> <<>>]

Undefined ==
  [kind |-> "undefined", files |-> <<>>]

Value(f) ==
  [kind |-> "value", files |-> f]

NotCalled ==
  [kind |-> "none", files |-> <<>>]

\* no setCachedData has reached localStorage
NoWrite ==
  [files |-> <<>>, at |-> 0]

\* no call of a method that is looked at on its own has returned yet
NoReturn ==
  [category |-> "none", number |-> -1, cached |-> NotCalled,
   wrote |-> NoWrite, shown |-> <<>>, count |-> -1, destroyed |-> FALSE]

\* a slot without a run
IdleRun ==
  [pc |-> "idle", isInit |-> FALSE]

(***************************************************************************)
(* Methods of NotesPortal                                                  *)
(***************************************************************************)
\* the step handles one more event
Event ==
  /\ events < MaxEvents
  /\ events' = events + 1

\* isCacheValid with the age compared by <= instead of <
isCacheValidInclusive ==
  /\ lastUpdate # 0
  /\ (now - lastUpdate) <= cacheDuration
  /\ Len(files) > 0

isCacheValid ==
  /\ lastUpdate # 0
  /\ (now - lastUpdate) < cacheDuration
  /\ Len(files) > 0

\* setCachedData that keeps an entry the store already holds
setCachedDataKeepsFirst(data) ==
  [store |-> IF storageFull \/ store.kind = "entry"
               THEN store ELSE StoreEntry(data, now),
   threw |-> FALSE]

\* getCachedData with the age compared by >= instead of >
getCachedDataExclusive ==
  IF store.kind = "absent"
    THEN [value |-> Null, store |-> store, threw |-> FALSE]
  ELSE IF store.kind \in {"garbage", "null"}
    THEN [value |-> Null, store |-> store, threw |-> FALSE]
  ELSE IF store.kind = "bare"
    THEN [value |-> Undefined, store |-> store, threw |-> FALSE]
  ELSE IF store.kind = "untimed"
    THEN [value |-> Value(store.files), store |-> store, threw |-> FALSE]
  ELSE IF now - store.timestamp >= PersistedMaxAge
    THEN [value |-> Null, store |-> StoreAbsent, threw |-> FALSE]
  ELSE [value |-> Value(store.files), store |-> store, threw |-> FALSE]

\* getCachedData(): the value it returns and the store it leaves
getCachedData ==
  \* getItem returns null: if (!cached) return null
  IF store.kind = "absent"
    THEN [value |-> Null, store |-> store, threw |-> FALSE]
  \* JSON.parse throws, or data is null and data.timestamp throws: the catch
  \* returns null
  ELSE IF store.kind \in {"garbage", "null"}
    THEN [value |-> Null, store |-> store, threw |-> FALSE]
  \* data.timestamp is undefined: Date.now() - undefined is NaN, and
  \* NaN > 3600000 is false, so data.files is returned
  ELSE IF store.kind = "bare"
    THEN [value |-> Undefined, store |-> store, threw |-> FALSE]
  ELSE IF store.kind = "untimed"
    THEN [value |-> Value(store.files), store |-> store, threw |-> FALSE]
  ELSE IF now - store.timestamp > PersistedMaxAge
    THEN [value |-> Null, store |-> StoreAbsent, threw |-> FALSE]
  ELSE [value |-> Value(store.files), store |-> store, threw |-> FALSE]

\* setCachedData without its try/catch: the exception of setItem escapes
setCachedDataUncaught(data) ==
  [store |-> IF storageFull THEN store ELSE StoreEntry(data, now),
   threw |-> storageFull]

\* the exception of localStorage.setItem is swallowed
setCachedData(data) ==
  [store |-> IF storageFull THEN store ELSE StoreEntry(data, now),
   threw |-> FALSE]

getActiveFiles(fs, cats, active) ==
  IF active = "todos" THEN fs
  ELSE IF active \in CategorySet THEN cats[active]
  ELSE <<>>

renderFiles(fs, cats, active) ==
  IF Len(getActiveFiles(fs, cats, active)) = 0
    THEN [view |-> "empty", store |-> store, threw |-> FALSE]
    ELSE LET w == setCachedData(fs)
         IN  [view |-> "grid", store |-> w.store, threw |-> w.threw]

\* s.trim(), the blank being the only white space of the alphabet
RECURSIVE trim(_)
trim(s) ==
  IF s = <<>> THEN s
  ELSE IF Head(s) = " " THEN trim(Tail(s))
  ELSE IF s[Len(s)] = " " THEN trim(SubSeq(s, 1, Len(s) - 1))
  ELSE s

\* s.replace(sub, ''): the first occurrence of sub is removed
RemoveFirst(s, sub) ==
  IF ~includes(s, sub) THEN s
  ELSE LET k == SetMin({i \in 1..Len(s) : MatchAt(s, sub, i)})
       IN  SubSeq(s, 1, k - 1) \o SubSeq(s, k + Len(sub), Len(s))

\* the card of a file: its data-file-name attribute and its textContent,
\* the name without '.html' followed by the labels of the card
createFileCard(file) ==
  [name |-> file.name,
   dataFileName |-> toLowerCase(file.name),
   textContent |->
     RemoveFirst(file.name, <<".","h","t","m","l">>)
       \o <<" ","T","a","m","a","n","h","o",":"," ",
            "A","b","r","i","r"," ","N","o","t","a">>]

\* document.querySelectorAll('.file-card'): the cards of the last
\* renderFiles, which the loading, empty and error views have replaced
FileCards ==
  IF view = "grid"
    THEN MapSeq(getActiveFiles(files, categories, activeCategory),
                createFileCard)
    ELSE <<>>

\* filterFiles(searchTerm): the cards it leaves visible and the count it
\* hands to showSearchFeedback, -1 when it removes the feedback
filterFiles(searchTerm) ==
  LET term == trim(toLowerCase(searchTerm))
      visible == SelectSeq(FileCards,
                   LAMBDA card : \/ includes(card.dataFileName, term)
                                 \/ includes(toLowerCase(card.textContent),
                                             term))
  IN  IF term = <<>>
        THEN [shown |-> MapSeq(FileCards, LAMBDA card : card.name),
              count |-> -1]
        ELSE [shown |-> MapSeq(visible, LAMBDA card : card.name),
              count |-> Len(visible)]

\* categorizeFiles without the loop that empties the buckets first
categorizeFilesNoClear(fs) ==
  [categories |->
     [k \in CategorySet |->
        StableSort("bucket",
          categories[k] \o MapSeq(SelectSeq(fs, LAMBDA f : categoryOf[f.name] = k),
                                  BucketRec))],
   files |-> StableSort("flat", fs)]

categorizeFiles(fs) ==
  [categories |->
     [k \in CategorySet |->
        StableSort("bucket",
          MapSeq(SelectSeq(fs, LAMBDA f : categoryOf[f.name] = k),
                 BucketRec))],
   files |-> StableSort("flat", fs)]

\* testFileExists always answers null, so no file is ever added
discoverNewFiles(fs) ==
  LET newFiles == <<>>
  IN  IF Len(newFiles) > 0 THEN fs \o newFiles ELSE fs

debugLocalFiles ==
  StableSort("local", MapSeq(allKnownFiles,
                             LAMBDA n : FileRec(n, "local-complete-list")))

\* loadLocalFiles without the assignment of the mapped list to this.files
loadLocalFilesUnassigned ==
  files

\* the list loadLocalFiles leaves in this.files once its delay has elapsed
loadLocalFiles ==
  LET sorted == StableSort("local",
                           MapSeq(knownFiles, LAMBDA n : FileRec(n, "none")))
      checked == IF Len(sorted) = 0 THEN debugLocalFiles ELSE sorted
  IN  IF Len(checked) < 40 THEN discoverNewFiles(checked) ELSE checked

\* loadFromGitHub on a parsed array: the note files it keeps
GitHubFiles(data) ==
  MapSeq(SelectSeq(data, LAMBDA e : e.type = "file"
                           /\ endsWith(e.name, <<".","h","t","m","l">>)),
         LAMBDA e : FileRec(e.name, "github-api"))

\* the sort of loadFromGitHub by lastModified, newest first: every entry is
\* stamped with the time of its own map call, so the entries stamped after
\* a tick of the clock move in front of the earlier ones
SortByLastModified(fs) ==
  {SubSeq(fs, k + 1, Len(fs)) \o SubSeq(fs, 1, k) : k \in 0..Len(fs)}

UsesLocalMethod ==
  currentRepo.useGitHubAPI = FALSE \/ currentRepo.isLocal

(***************************************************************************)
(* loadFiles                                                               *)
(***************************************************************************)
\* a run that has left the synchronous part of loadFiles: it waits for the
\* fetch of loadFromGitHub or for the delay of loadLocalFiles
StartedRun(isInit) ==
  [pc |-> IF UsesLocalMethod THEN "delay" ELSE "fetch", isInit |-> isInit]

\* the synchronous part of loadFiles(forceRefresh), up to its first await
loadFiles(forceRefresh) ==
  /\ IF (~forceRefresh) /\ isCacheValid
       THEN \E rf \in {renderFiles(files, categories, activeCategory)} :
              /\ view' = rf.view
              /\ store' = rf.store
              /\ unhandledRejection' = (unhandledRejection \/ rf.threw)
              /\ UNCHANGED <<runs, loadingState>>
       ELSE /\ FreeSlots # {}
            /\ runs' = [runs EXCEPT ![SetMin(FreeSlots)] = StartedRun(FALSE)]
            /\ view' = "loading"
            /\ loadingState' = TRUE
            /\ UNCHANGED <<store, unhandledRejection>>
  /\ UNCHANGED <<files, categories, activeCategory, lastUpdate>>

FreeTimerIds ==
  (1..MaxTimers) \ {t.id : t \in timers}

\* setupAutoUpdate: a new interval timer, its handle stored over the old one
setupAutoUpdate ==
  /\ FreeTimerIds # {}
  /\ timers' = timers \cup {[id |-> SetMin(FreeTimerIds),
                             due |-> now + cacheDuration]}
  /\ autoUpdateInterval' = SetMin(FreeTimerIds)

pauseAutoUpdate ==
  IF autoUpdateInterval # 0
    THEN /\ timers' = {t \in timers : t.id # autoUpdateInterval}
         /\ autoUpdateInterval' = 0
    ELSE UNCHANGED <<timers, autoUpdateInterval>>

resumeAutoUpdate ==
  IF autoUpdateInterval = 0
    THEN setupAutoUpdate
    ELSE UNCHANGED <<timers, autoUpdateInterval>>

\* the rest of the try block of loadFiles once a source has filled
\* this.files with raw, its catch and finally, and, for the run awaited by
\* init, the rest of init
FinishLoad(r, raw) ==
  \E cz \in {categorizeFiles(fs) : fs \in {raw}} :
    \E rf \in {renderFiles(cz.files, cz.categories, activeCategory)} :
      /\ lastUpdate' = now
      /\ files' = cz.files
      /\ categories' = cz.categories
      /\ view' = IF rf.threw THEN "error" ELSE rf.view
      /\ store' = rf.store
      /\ loadingState' = FALSE
      /\ runs' = [runs EXCEPT ![r] = IdleRun]
      /\ IF runs[r].isInit
           THEN setupAutoUpdate
           ELSE UNCHANGED <<timers, autoUpdateInterval>>
      /\ UNCHANGED <<activeCategory, unhandledRejection>>

\* what fetch settles with besides a success: a status, a network error
FailureStatuses ==
  {"404", "500", "neterr"}

\* what response.json() settles with besides an array: a syntax error, a
\* parsed value that is no array
BadBodies ==
  {"invalid", "object"}

\* FetchSettles for a loadFiles without the inner try/catch around
\* loadFromGitHub: a failure goes to the outer catch and renderError
FetchSettlesNoFallback(r, res) ==
  /\ runs[r].pc = "fetch"
  /\ ~endpointDown
  /\ IF res = "ok"
       THEN /\ runs' = [runs EXCEPT ![r].pc = "json"]
            /\ UNCHANGED <<view, loadingState, timerVars>>
       ELSE /\ runs' = [runs EXCEPT ![r] = IdleRun]
            /\ view' = "error"
            /\ loadingState' = FALSE
            /\ IF runs[r].isInit
                 THEN setupAutoUpdate
                 ELSE UNCHANGED timerVars
  /\ UNCHANGED <<catalogVars, activeCategory, envVars, now, events,
                 store, hidden, online, unhandledRejection>>

\* the fetch of loadFromGitHub settles: a response with a status, or a
\* network error; everything but a success makes loadFromGitHub throw, and
\* the catch of loadFiles calls loadLocalFiles
FetchSettles(r, res) ==
  /\ runs[r].pc = "fetch"
  /\ ~endpointDown
  /\ runs' = [runs EXCEPT ![r].pc = IF res = "ok" THEN "json" ELSE "delay"]
  /\ UNCHANGED <<catalogVars, activeCategory, envVars, now, events,
                 store, loadingState, view, timerVars, hidden, online,
                 unhandledRejection>>

\* response.json() settles with something that is not an array of entries:
\* text that does not parse, or a parsed value without filter
JsonFails(r, body) ==
  /\ runs[r].pc = "json"
  /\ body \in BadBodies
  /\ runs' = [runs EXCEPT ![r].pc = "delay"]
  /\ UNCHANGED <<catalogVars, activeCategory, envVars, now, events,
                 store, loadingState, view, timerVars, hidden, online,
                 unhandledRejection>>

\* response.json() settles with an array: loadFromGitHub returns and
\* loadFiles runs to its end
JsonSettles(r, data) ==
  /\ runs[r].pc = "json"
  /\ \E fs \in SortByLastModified(GitHubFiles(data)) :
       FinishLoad(r, fs)
  /\ UNCHANGED <<envVars, now, events, hidden, online>>

\* the delay of loadLocalFiles elapses: the static list is loaded and
\* loadFiles runs to its end
DelayElapses(r) ==
  /\ runs[r].pc = "delay"
  /\ FinishLoad(r, loadLocalFiles)
  /\ UNCHANGED <<envVars, now, events, hidden, online>>

(***************************************************************************)
(* Event handlers                                                          *)
(***************************************************************************)
RefreshClick ==
  /\ Event
  /\ loadFiles(TRUE)
  /\ UNCHANGED <<envVars, now, timerVars, hidden, online>>

\* handleKeyboardShortcuts on Ctrl+R
KeyCtrlR ==
  /\ Event
  /\ loadFiles(TRUE)
  /\ UNCHANGED <<envVars, now, timerVars, hidden, online>>

\* a script or the console calls window.notesPortal.loadFiles()
CallLoadFiles ==
  /\ Event
  /\ loadFiles(FALSE)
  /\ UNCHANGED <<envVars, now, timerVars, hidden, online>>

OnlineEvent ==
  /\ Event
  /\ ~online
  /\ online' = TRUE
  /\ loadFiles(TRUE)
  /\ UNCHANGED <<envVars, now, timerVars, hidden>>

OfflineEvent ==
  /\ Event
  /\ online
  /\ online' = FALSE
  /\ UNCHANGED <<catalogVars, activeCategory, envVars, now,
                 store, runs, loadingState, view, timerVars, hidden,
                 unhandledRejection>>

VisibilityChange ==
  /\ Event
  /\ hidden' = ~hidden
  /\ IF hidden' THEN pauseAutoUpdate ELSE resumeAutoUpdate
  /\ UNCHANGED <<catalogVars, activeCategory, envVars, now,
                 store, runs, loadingState, view, online, unhandledRejection>>

\* the callback of an interval timer
TimerTick(t) ==
  /\ Event
  /\ t \in timers
  /\ now >= t.due
  /\ timers' = (timers \ {t}) \cup {[t EXCEPT !.due = now + cacheDuration]}
  /\ IF (~hidden) /\ online
       THEN loadFiles(FALSE)
       ELSE UNCHANGED <<catalogVars, activeCategory, store, runs,
                        loadingState, view, unhandledRejection>>
  /\ UNCHANGED <<envVars, now, autoUpdateInterval, hidden, online>>

\* keys switchCategory is called with: the all-view, a category some
\* sources fill and others leave empty, an unknown key
SwitchKeys ==
  {"todos", "DC", "XYZ"}

switchCategory(categoryKey) ==
  \E rf \in {renderFiles(files, categories, categoryKey)} :
    /\ Event
    /\ activeCategory' = categoryKey
    /\ view' = rf.view
    /\ store' = rf.store
    /\ UNCHANGED <<catalogVars, envVars, now, runs,
                   loadingState, timerVars, hidden, online,
                   unhandledRejection>>

\* getDebugInfo returns a report and changes nothing
getDebugInfo ==
  [filesCount |-> Len(files), cacheValid |-> isCacheValid,
   lastUpdate |-> lastUpdate, repo |-> currentRepo]

clearCache ==
  /\ Event
  /\ store' = StoreAbsent
  /\ UNCHANGED <<catalogVars, activeCategory, envVars, now,
                 runs, loadingState, view, timerVars, hidden, online,
                 unhandledRejection>>

\* destroy that also forgets the repository descriptor
destroyResetsRepo ==
  /\ Event
  /\ pauseAutoUpdate
  /\ currentRepo' = [currentRepo EXCEPT !.owner = <<>>]
  /\ returned' = [returned EXCEPT !.destroyed = TRUE]
  /\ UNCHANGED <<catalogVars, activeCategory, location, endpointDown,
                 storageFull, memo, fileName, now,
                 store, runs, loadingState, view, hidden, online,
                 unhandledRejection>>

\* destroy(): the stored timer is cleared; the removeEventListener calls
\* name functions that were never registered, so every listener stays
destroy ==
  /\ Event
  /\ pauseAutoUpdate
  /\ returned' = [returned EXCEPT !.destroyed = TRUE]
  /\ UNCHANGED <<catalogVars, activeCategory, currentRepo, location,
                 endpointDown, storageFull, memo, fileName, now,
                 store, runs, loadingState, view, hidden, online,
                 unhandledRejection>>

\* time passes
AdvanceTime(d) ==
  /\ Event
  /\ now' = now + d
  /\ UNCHANGED <<catalogVars, activeCategory, envVars, store, runs,
                 loadingState, view, timerVars, hidden, online,
                 unhandledRejection>>

(***************************************************************************)
(* The session of assets/js/main.js                                        *)
(***************************************************************************)
\* the state the constructor leaves: init has cached the elements, set up
\* the listeners and called loadFiles(), which waits at its first await
Init ==
  /\ location \in Locations
  /\ currentRepo = extractRepoInfo(location)
  /\ endpointDown \in IF UsesLocalMethod THEN {FALSE} ELSE BOOLEAN
  /\ storageFull \in BOOLEAN
  /\ files = <<>>
  /\ categories = EmptyCategories
  /\ activeCategory = "todos"
  /\ lastUpdate = 0
  /\ now = Now0
  /\ events = 0
  /\ store \in InitialStores
  /\ runs = [r \in RunIds |-> IF r = 1 THEN StartedRun(TRUE) ELSE IdleRun]
  /\ loadingState = TRUE
  /\ view = "loading"
  /\ autoUpdateInterval = 0
  /\ timers = {}
  /\ hidden = FALSE
  /\ online = TRUE
  /\ unhandledRejection = FALSE
  /\ memo = Tables
  /\ fileName = <<>>
  /\ returned = NoReturn

Next ==
  \/ \E r \in RunIds, res \in {"ok"} \cup FailureStatuses : FetchSettles(r, res)
  \/ \E r \in RunIds, body \in BadBodies : JsonFails(r, body)
  \/ \E r \in RunIds, data \in RemoteListings : JsonSettles(r, data)
  \/ \E r \in RunIds : DelayElapses(r)
  \/ RefreshClick
  \/ KeyCtrlR
  \/ CallLoadFiles
  \/ OnlineEvent
  \/ OfflineEvent
  \/ VisibilityChange
  \/ \E t \in timers : TimerTick(t)
  \/ \E k \in SwitchKeys : switchCategory(k)
  \/ clearCache
  \/ destroy
  \/ \E d \in Deltas : AdvanceTime(d)

Spec ==
  Init /\ [][Next]_vars

\* the settling of a promise or of a timer that a run awaits is a task the
\* event loop runs once it is ready; an endpoint that never answers leaves
\* the fetch pending, and FetchSettles disabled
Fairness ==
  \A r \in RunIds :
    /\ WF_vars(\E res \in {"ok"} \cup FailureStatuses : FetchSettles(r, res))
    /\ WF_vars(\/ \E data \in RemoteListings : JsonSettles(r, data)
               \/ \E body \in BadBodies : JsonFails(r, body))
    /\ WF_vars(DelayElapses(r))

SpecFair ==
  Init /\ [][Next]_vars /\ Fairness

(***************************************************************************)
(* The session of the earlier script, unnamed/part_000: no categories, a   *)
(* mock list on a development host, and the persisted entry as the         *)
(* fallback of a failed listing                                            *)
(***************************************************************************)
\* a descriptor of this.files as loadMockFiles and loadFromGitHub build it
LegacyFileRec(n) ==
  [name |-> n]

M_EXEMPLO ==
  <<"e","x","e","m","p","l","o","-","n","o","t","a","-","i","n","t","e","r",
    "a","t","i","v","a",".","h","t","m","l">>

M_PRIMEIRA ==
  <<"m","i","n","h","a","-","p","r","i","m","e","i","r","a","-","n","o","t",
    "a",".","h","t","m","l">>

M_REUNIAO ==
  <<"a","n","o","t","a","c","o","e","s","-","r","e","u","n","i","a","o",
    ".","h","t","m","l">>

\* the literal of loadMockFiles
mockFiles ==
  <<LegacyFileRec(M_EXEMPLO), LegacyFileRec(M_PRIMEIRA),
    LegacyFileRec(M_REUNIAO)>>

\* an entry of the store that parses but was not written by this script:
\* its files array holds an element without name
ForeignEntry ==
  StoreEntry(<<[size |-> 0]>>, Now0 - cacheDuration)

\* what the store holds when the page opens: as above, or an entry of an
\* earlier session of this script, or a foreign one, both still fresh
LegacyInitialStores ==
  InitialStores
    \cup {StoreEntry(<<LegacyFileRec(N_ACAO)>>, Now0 - cacheDuration),
          ForeignEntry}

LegacyExtractRepoInfo(loc) ==
  LET hostname == loc.hostname
      owner == FirstLabel(hostname)
  IN  IF \/ hostname = <<"l","o","c","a","l","h","o","s","t">>
         \/ hostname = <<"1","2","7",".","0",".","0",".","1">>
         \/ includes(hostname, <<"l","o","c","a","l">>)
        THEN [owner |-> <<"l","o","c","a","l">>,
              repo |-> <<"d","e","v","_","n","o","t","e","s">>,
              branch |-> "main", isLocal |-> TRUE]
      ELSE IF endsWith(hostname, <<".","g","i","t","h","u","b",".","i","o">>)
        THEN [owner |-> owner,
              repo |-> IF PathParts(loc.pathname) # <<>>
                         THEN PathParts(loc.pathname)[1]
                       ELSE owner \o <<".","g","i","t","h","u","b",".","i","o">>,
              branch |-> "main", isLocal |-> FALSE]
      ELSE [owner |-> <<"u","s","e","r">>,
            repo |-> <<"d","e","v","_","n","o","t","e","s">>,
            branch |-> "main", isLocal |-> FALSE]

LegacyIsCacheValid ==
  /\ lastUpdate # 0
  /\ (now - lastUpdate) < cacheDuration
  /\ Len(files) > 0

\* setCachedData when the store holds st
LegacySetCachedData(st, data) ==
  IF storageFull THEN st ELSE StoreEntry(data, now)

\* getCachedData: null (found = FALSE) for no entry, for text that does not
\* parse and for an entry older than an hour, which it removes
LegacyGetCachedData ==
  IF store.kind # "entry"
    THEN [found |-> FALSE, files |-> <<>>, store |-> store]
  ELSE IF now - store.timestamp > PersistedMaxAge
    THEN [found |-> FALSE, files |-> <<>>, store |-> StoreAbsent]
  ELSE [found |-> TRUE, files |-> store.files, store |-> store]

\* createFileCard reads file.name.replace: a TypeError without a name
LegacyCreateFileCardThrows(file) ==
  "name" \notin DOMAIN file

\* renderFiles of the list fs when the store holds st
LegacyRenderFiles(st, fs) ==
  IF Len(fs) = 0
    THEN [view |-> "empty", store |-> st, threw |-> FALSE]
  ELSE IF \E i \in 1..Len(fs) : LegacyCreateFileCardThrows(fs[i])
    THEN [view |-> view, store |-> st, threw |-> TRUE]
  ELSE [view |-> "grid", store |-> LegacySetCachedData(st, fs),
        threw |-> FALSE]

\* a run at its first await; before is history, the catalog at its start
LegacyStartedRun(isInit) ==
  [pc |-> IF currentRepo.isLocal THEN "delay" ELSE "fetch",
   isInit |-> isInit, before |-> files]

\* the synchronous part of loadFiles(forceRefresh); the renderFiles of the
\* cache hit runs outside the try block
LegacyLoadFiles(forceRefresh) ==
  /\ IF (~forceRefresh) /\ LegacyIsCacheValid
       THEN \E rf \in {LegacyRenderFiles(store, files)} :
              /\ view' = rf.view
              /\ store' = rf.store
              /\ unhandledRejection' = (unhandledRejection \/ rf.threw)
              /\ UNCHANGED <<runs, loadingState>>
       ELSE /\ FreeSlots # {}
            /\ runs' = [runs EXCEPT ![SetMin(FreeSlots)] =
                                      LegacyStartedRun(FALSE)]
            /\ view' = "loading"
            /\ loadingState' = TRUE
            /\ UNCHANGED <<store, unhandledRejection>>
  /\ UNCHANGED <<files, categories, activeCategory, lastUpdate>>

\* setupAutoUpdate, the same method as in assets/js/main.js
LegacySetupAutoUpdate ==
  setupAutoUpdate

\* the rest of loadFiles once its source has returned with this.files = fs
\* and the store holding st: the try block, its catch with renderError, its
\* finally, and the rest of init for the run init awaits
LegacyFinishLoad(r, fs, st) ==
  \E rf \in {LegacyRenderFiles(st, fs)} :
    /\ files' = fs
    /\ lastUpdate' = now
    /\ view' = IF rf.threw THEN "error" ELSE rf.view
    /\ store' = rf.store
    /\ loadingState' = FALSE
    /\ runs' = [runs EXCEPT ![r] = IdleRun]
    /\ IF runs[r].isInit
         THEN LegacySetupAutoUpdate
         ELSE UNCHANGED <<timers, autoUpdateInterval>>
    /\ UNCHANGED <<categories, activeCategory, unhandledRejection>>

\* the catch of loadFromGitHub without its call of getCachedData
LegacyCatchNoCache(r) ==
  LegacyFinishLoad(r, <<>>, store)

\* the catch of loadFromGitHub: the empty list, then the persisted entry
\* when getCachedData returns one
LegacyCatch(r) ==
  \E c \in {LegacyGetCachedData} :
    LegacyFinishLoad(r, IF c.found THEN c.files ELSE <<>>, c.store)

\* fetch settles: a success goes on to response.json(), a 404 returns the
\* empty list, everything else is thrown into the catch
LegacyFetchSettles(r, res) ==
  /\ runs[r].pc = "fetch"
  /\ ~endpointDown
  /\ IF res = "ok"
       THEN /\ runs' = [runs EXCEPT ![r].pc = "json"]
            /\ UNCHANGED <<catalogVars, activeCategory, store, loadingState,
                           view, timerVars, unhandledRejection>>
       ELSE IF res = "404" THEN LegacyFinishLoad(r, <<>>, store)
       ELSE LegacyCatch(r)
  /\ UNCHANGED <<envVars, now, events, hidden, online>>

LegacyJsonFails(r, body) ==
  /\ runs[r].pc = "json"
  /\ body \in BadBodies
  /\ LegacyCatch(r)
  /\ UNCHANGED <<envVars, now, events, hidden, online>>

\* the note files of the listing, sorted by name
LegacyGitHubFiles(data) ==
  StableSort("name",
             MapSeq(SelectSeq(data, LAMBDA e : e.type = "file"
                                /\ endsWith(e.name, <<".","h","t","m","l">>)),
                    LAMBDA e : LegacyFileRec(e.name)))

LegacyJsonSettles(r, data) ==
  /\ runs[r].pc = "json"
  /\ LegacyFinishLoad(r, LegacyGitHubFiles(data), store)
  /\ UNCHANGED <<envVars, now, events, hidden, online>>

\* the 500 ms of loadMockFiles elapse
LegacyMockElapses(r) ==
  /\ runs[r].pc = "delay"
  /\ LegacyFinishLoad(r, mockFiles, store)
  /\ UNCHANGED <<envVars, now, events, hidden, online>>

LegacyRefreshClick ==
  /\ Event
  /\ LegacyLoadFiles(TRUE)
  /\ UNCHANGED <<envVars, now, timerVars, hidden, online>>

LegacyTimerTick(t) ==
  /\ Event
  /\ t \in timers
  /\ now >= t.due
  /\ timers' = (timers \ {t}) \cup {[t EXCEPT !.due = now + cacheDuration]}
  /\ IF (~hidden) /\ online
       THEN LegacyLoadFiles(FALSE)
       ELSE UNCHANGED <<catalogVars, activeCategory, store, runs,
                        loadingState, view, unhandledRejection>>
  /\ UNCHANGED <<envVars, now, autoUpdateInterval, hidden, online>>

\* the state the constructor of part_000 leaves, loadFiles() of init at its
\* first await
LegacyInit ==
  /\ location \in Locations
  /\ currentRepo = LegacyExtractRepoInfo(location)
  /\ endpointDown \in IF currentRepo.isLocal THEN {FALSE} ELSE BOOLEAN
  /\ storageFull \in BOOLEAN
  /\ files = <<>>
  /\ categories = EmptyCategories
  /\ activeCategory = "todos"
  /\ lastUpdate = 0
  /\ now = Now0
  /\ events = 0
  /\ store \in LegacyInitialStores
  /\ runs = [r \in RunIds |-> IF r = 1
                                THEN [pc |-> IF currentRepo.isLocal
                                               THEN "delay" ELSE "fetch",
                                      isInit |-> TRUE, before |-> <<>>]
                                ELSE IdleRun]
  /\ loadingState = TRUE
  /\ view = "loading"
  /\ autoUpdateInterval = 0
  /\ timers = {}
  /\ hidden = FALSE
  /\ online = TRUE
  /\ unhandledRejection = FALSE
  /\ memo = Tables
  /\ fileName = <<>>
  /\ returned = NoReturn

\* the steps of the earlier script that start or end a run, its timer and
\* the clock
LegacyNext ==
  \/ \E r \in RunIds, res \in {"ok"} \cup FailureStatuses :
       LegacyFetchSettles(r, res)
  \/ \E r \in RunIds, body \in BadBodies : LegacyJsonFails(r, body)
  \/ \E r \in RunIds, data \in RemoteListings : LegacyJsonSettles(r, data)
  \/ \E r \in RunIds : LegacyMockElapses(r)
  \/ LegacyRefreshClick
  \/ \E t \in timers : LegacyTimerTick(t)
  \/ \E d \in Deltas : AdvanceTime(d)

SpecLegacy ==
  LegacyInit /\ [][LegacyNext]_vars

(***************************************************************************)
(* Calls of detectFileCategory and extractFileNumber on their own          *)
(***************************************************************************)
\* the parts file names are put together from: what precedes the code, the
\* separator before it, the code, the separator after it, a number, the
\* rest of the name with the extension
NamePrefixes ==
  { <<>>, <<"2","0","2","5","_","0","6","_","2","5">>, <<"x">>,
    <<"f","i","l","e">> }

NameSeparators ==
  { <<>>, <<"_">>, <<"-">>, <<" ">>, <<".">> }

NameCodes ==
  { <<>>, <<"D","P","P">>, <<"D","P">>, <<"D","C">>, <<"i","n","f">> }

NameNumbers ==
  { <<>>, <<"7">>, <<"0","4","2">>, <<"0","0","5">>, <<"0","0","5","1">>,
    <<"1","2","3","4","5">> }

NameTails ==
  { <<>>, <<".","h","t","m","l">>,
    <<"-"," ","T",".","h","t","m","l">>,
    <<"_","D","P","P","_",".","h","t","m">> }

FileNames ==
  { pre \o s1 \o code \o s2 \o num \o tail :
      pre \in NamePrefixes, s1 \in NameSeparators \ {<<".">>},
      code \in NameCodes, s2 \in NameSeparators, num \in NameNumbers,
      tail \in NameTails }

\* a script calls window.notesPortal.detectFileCategory(fileName)
CallDetectFileCategory ==
  /\ returned.category = "none"
  /\ returned' = [returned EXCEPT !.category = detectFileCategory(fileName)]
  /\ UNCHANGED <<files, categories, activeCategory, lastUpdate, currentRepo,
                 location, endpointDown, storageFull, now, events, store,
                 runs, loadingState, view, autoUpdateInterval, timers, hidden,
                 online, unhandledRejection, memo, fileName>>

\* a script calls window.notesPortal.extractFileNumber(fileName)
CallExtractFileNumber ==
  /\ returned.number = -1
  /\ returned' = [returned EXCEPT !.number = extractFileNumber(fileName)]
  /\ UNCHANGED <<files, categories, activeCategory, lastUpdate, currentRepo,
                 location, endpointDown, storageFull, now, events, store,
                 runs, loadingState, view, autoUpdateInterval, timers, hidden,
                 online, unhandledRejection, memo, fileName>>

\* a constructed portal on a development host before its first load ends,
\* and a file name to call the two methods with
NamesInit ==
  /\ memo = Tables
  /\ location = Location(<<"l","o","c","a","l","h","o","s","t">>, <<"/">>, "http:")
  /\ currentRepo = extractRepoInfo(location)
  /\ endpointDown = FALSE
  /\ storageFull = FALSE
  /\ files = <<>>
  /\ categories = EmptyCategories
  /\ activeCategory = "todos"
  /\ lastUpdate = 0
  /\ now = Now0
  /\ events = 0
  /\ store = StoreAbsent
  /\ runs = [r \in RunIds |-> IF r = 1 THEN StartedRun(TRUE) ELSE IdleRun]
  /\ loadingState = TRUE
  /\ view = "loading"
  /\ autoUpdateInterval = 0
  /\ timers = {}
  /\ hidden = FALSE
  /\ online = TRUE
  /\ unhandledRejection = FALSE
  /\ fileName \in FileNames
  /\ returned = NoReturn

NamesNext ==
  \/ CallDetectFileCategory
  \/ CallExtractFileNumber

SpecNames ==
  NamesInit /\ [][NamesNext]_vars

(***************************************************************************)
(* categorizeFiles on its own: the point of loadFiles at which the source  *)
(* has filled this.files                                                   *)
(***************************************************************************)
\* names of two categories with different numbers, and two of GERAL that
\* carry no number
CategorizePool ==
  {N_EXEMPLO, N_ACAO, N_DC001, N_DC005, N_DPP001}

\* the lists a source can have delivered: up to MaxFiles distinct names in
\* any order, as records of the static path or of the remote path
DeliveredLists ==
  UNION {{[i \in 1..n |-> FileRec(f[i], src)] :
            f \in {g \in [1..n -> CategorizePool] :
                     \A i, j \in 1..n : g[i] = g[j] => i = j},
            src \in {"none", "github-api"}} : n \in 0..MaxFiles}

\* line 358 of loadFiles
CallCategorizeFiles ==
  /\ \E cz \in {categorizeFiles(fs) : fs \in {files}} :
       /\ files' = cz.files
       /\ categories' = cz.categories
  /\ UNCHANGED <<activeCategory, lastUpdate, currentRepo,
                 location, endpointDown, storageFull, now, events, store,
                 runs, loadingState, view, autoUpdateInterval, timers, hidden,
                 online, unhandledRejection, memo, fileName, returned>>

CategorizeInit ==
  /\ memo = Tables
  /\ location = Location(<<"l","o","c","a","l","h","o","s","t">>, <<"/">>, "http:")
  /\ currentRepo = extractRepoInfo(location)
  /\ endpointDown = FALSE
  /\ storageFull = FALSE
  /\ files \in DeliveredLists
  /\ categories = EmptyCategories
  /\ activeCategory = "todos"
  /\ lastUpdate = Now0
  /\ now = Now0
  /\ events = 0
  /\ store = StoreAbsent
  /\ runs = [r \in RunIds |-> IF r = 1 THEN StartedRun(TRUE) ELSE IdleRun]
  /\ loadingState = TRUE
  /\ view = "loading"
  /\ autoUpdateInterval = 0
  /\ timers = {}
  /\ hidden = FALSE
  /\ online = TRUE
  /\ unhandledRejection = FALSE
  /\ fileName = <<>>
  /\ returned = NoReturn

CategorizeNext ==
  CallCategorizeFiles

SpecCategorize ==
  CategorizeInit /\ [][CategorizeNext]_vars

(***************************************************************************)
(* extractRepoInfo on its own: line 41 of the constructor                  *)
(***************************************************************************)
\* this.currentRepo before the constructor has assigned it
NoRepo ==
  [owner |-> <<>>, repo |-> <<>>, branch |-> "undefined",
   isLocal |-> FALSE, useGitHubAPI |-> FALSE]

\* host names a page can be served from
ContextHosts ==
  { <<"l","o","c","a","l","h","o","s","t">>,
    <<"1","2","7",".","0",".","0",".","1">>,
    <<"i","n","t","r","a","n","e","t">>,
    <<"u",".","g","i","t","h","u","b",".","i","o">>,
    <<"l","o","c","a","l","u",".","g","i","t","h","u","b",".","i","o">>,
    <<"g","i","t","h","u","b",".","i","o">>,
    <<"e","x","a","m","p","l","e",".","c","o","m">> }

ContextPaths ==
  { <<"/">>, <<"/","r","/">>, <<"/","/","r","/","x">>,
    <<"/","r","/","i",".","h","t","m","l">> }

\* pages served over http or https, and files opened from disk, which have
\* no host
ContextLocations ==
  {Location(h, path, proto) :
     h \in ContextHosts, path \in ContextPaths, proto \in {"http:", "https:"}}
    \cup {Location(<<>>, path, "file:") : path \in ContextPaths}

CallExtractRepoInfo ==
  /\ currentRepo = NoRepo
  /\ currentRepo' = extractRepoInfo(location)
  /\ UNCHANGED <<files, categories, activeCategory, lastUpdate,
                 location, endpointDown, storageFull, now, events, store,
                 runs, loadingState, view, autoUpdateInterval, timers, hidden,
                 online, unhandledRejection, memo, fileName, returned>>

\* the constructor after its first assignment, this.files = []
ContextInit ==
  /\ memo = Tables
  /\ location \in ContextLocations
  /\ currentRepo = NoRepo
  /\ endpointDown = FALSE
  /\ storageFull = FALSE
  /\ files = <<>>
  /\ categories = EmptyCategories
  /\ activeCategory = "todos"
  /\ lastUpdate = 0
  /\ now = Now0
  /\ events = 0
  /\ store = StoreAbsent
  /\ runs = [r \in RunIds |-> IdleRun]
  /\ loadingState = FALSE
  /\ view = "loading"
  /\ autoUpdateInterval = 0
  /\ timers = {}
  /\ hidden = FALSE
  /\ online = TRUE
  /\ unhandledRejection = FALSE
  /\ fileName = <<>>
  /\ returned = NoReturn

ContextNext ==
  CallExtractRepoInfo

SpecContext ==
  ContextInit /\ [][ContextNext]_vars

(***************************************************************************)
(* setCachedData and getCachedData on their own                            *)
(***************************************************************************)
\* what an earlier session or another script may have left under the key
CacheStores ==
  { StoreAbsent, StoreGarbage, StoreNull, StoreBare,
    StoreUntimed(<<FileRec(N_ACAO, "github-api")>>),
    StoreEntry(<<FileRec(N_ACAO, "github-api")>>, Now0 - 1),
    StoreEntry(<<FileRec(N_ACAO, "github-api")>>, Now0 - PersistedMaxAge),
    StoreEntry(<<FileRec(N_ACAO, "github-api")>>, Now0 - PersistedMaxAge - 1) }

\* the arrays setCachedData is called with
CacheData ==
  { <<FileRec(N_DC001, "none")>>,
    <<FileRec(N_DC001, "none"), FileRec(N_DP001, "none")>> }

\* amounts by which the clock advances between two calls
CacheDeltas ==
  {PersistedMaxAge, PersistedMaxAge + 1}

\* the last instant of the clock
CacheHorizon ==
  Now0 + (2 * PersistedMaxAge) + 1

CallGetCachedData ==
  \E g \in {getCachedData} :
    /\ Event
    /\ returned' = [returned EXCEPT !.cached = g.value]
    /\ store' = g.store
    /\ unhandledRejection' = (unhandledRejection \/ g.threw)
    /\ UNCHANGED <<catalogVars, activeCategory, currentRepo, location,
                   endpointDown, storageFull, memo, fileName, now, runs,
                   loadingState, view, timerVars, hidden, online>>

CallSetCachedData(data) ==
  \E w \in {setCachedData(data)} :
    /\ Event
    /\ store' = w.store
    /\ unhandledRejection' = (unhandledRejection \/ w.threw)
    /\ returned' = IF w.store = store /\ storageFull THEN returned
                   ELSE [returned EXCEPT !.wrote = [files |-> data, at |-> now]]
    /\ UNCHANGED <<catalogVars, activeCategory, currentRepo, location,
                   endpointDown, storageFull, memo, fileName, now, runs,
                   loadingState, view, timerVars, hidden, online>>

\* time passes between two calls
CacheClockAdvances(d) ==
  /\ now + d <= CacheHorizon
  /\ now' = now + d
  /\ UNCHANGED <<catalogVars, activeCategory, envVars, events, store, runs,
                 loadingState, view, timerVars, hidden, online,
                 unhandledRejection>>

CacheInit ==
  /\ memo = Tables
  /\ location = Location(<<"l","o","c","a","l","h","o","s","t">>, <<"/">>,
                         "http:")
  /\ currentRepo = extractRepoInfo(location)
  /\ endpointDown = FALSE
  /\ storageFull \in BOOLEAN
  /\ files = <<>>
  /\ categories = EmptyCategories
  /\ activeCategory = "todos"
  /\ lastUpdate = 0
  /\ now = Now0
  /\ events = 0
  /\ store \in CacheStores
  /\ runs = [r \in RunIds |-> IdleRun]
  /\ loadingState = FALSE
  /\ view = "loading"
  /\ autoUpdateInterval = 0
  /\ timers = {}
  /\ hidden = FALSE
  /\ online = TRUE
  /\ unhandledRejection = FALSE
  /\ fileName = <<>>
  /\ returned = NoReturn

CacheNext ==
  \/ CallGetCachedData
  \/ \E data \in CacheData : CallSetCachedData(data)
  \/ \E d \in CacheDeltas : CacheClockAdvances(d)

SpecCache ==
  CacheInit /\ [][CacheNext]_vars

(***************************************************************************)
(* The search on a development host                                        *)
(***************************************************************************)
\* what the search input holds when filterFiles is called
SearchTerms ==
  { <<>>, <<" "," ">>, <<" ","D","C"," ">>, <<"a","b","r","i","r">>,
    <<"R","l","m">>, <<"z","z">> }

\* the debounced input listener, or Escape, calls filterFiles
CallFilterFiles(searchTerm) ==
  \E ff \in {filterFiles(searchTerm)} :
    /\ Event
    /\ returned' = [returned EXCEPT !.shown = ff.shown, !.count = ff.count]
    /\ UNCHANGED <<catalogVars, activeCategory, currentRepo, location,
                   endpointDown, storageFull, memo, fileName, now, store,
                   runs, loadingState, view, timerVars, hidden, online,
                   unhandledRejection>>

SearchInit ==
  /\ memo = Tables
  /\ location = Location(<<"l","o","c","a","l","h","o","s","t">>, <<"/">>,
                         "http:")
  /\ currentRepo = extractRepoInfo(location)
  /\ endpointDown = FALSE
  /\ storageFull = FALSE
  /\ files = <<>>
  /\ categories = EmptyCategories
  /\ activeCategory = "todos"
  /\ lastUpdate = 0
  /\ now = Now0
  /\ events = 0
  /\ store \in InitialStores
  /\ runs = [r \in RunIds |-> IF r = 1 THEN StartedRun(TRUE) ELSE IdleRun]
  /\ loadingState = TRUE
  /\ view = "loading"
  /\ autoUpdateInterval = 0
  /\ timers = {}
  /\ hidden = FALSE
  /\ online = TRUE
  /\ unhandledRejection = FALSE
  /\ fileName = <<>>
  /\ returned = NoReturn

SearchNext ==
  \/ \E r \in RunIds : DelayElapses(r)
  \/ RefreshClick
  \/ \E k \in SwitchKeys : switchCategory(k)
  \/ \E t \in SearchTerms : CallFilterFiles(t)

SpecSearch ==
  SearchInit /\ [][SearchNext]_vars

(***************************************************************************)
(* The periodic refresh on a development host, over two timer periods      *)
(***************************************************************************)
\* the instants the clock is looked at: the end of a load that started with
\* the page or with a tick, and the ticks of a timer created at Now0
TimerInstants ==
  { Now0 + LoadDelay, Now0 + cacheDuration,
    Now0 + cacheDuration + LoadDelay, Now0 + (2 * cacheDuration) }

\* time passes
ClockReaches(t) ==
  /\ t > now
  /\ now' = t
  /\ UNCHANGED <<catalogVars, activeCategory, envVars, events, store, runs,
                 loadingState, view, timerVars, hidden, online,
                 unhandledRejection>>

TimersInit ==
  /\ memo = Tables
  /\ location = Location(<<"l","o","c","a","l","h","o","s","t">>, <<"/">>,
                         "http:")
  /\ currentRepo = extractRepoInfo(location)
  /\ endpointDown = FALSE
  /\ storageFull = FALSE
  /\ files = <<>>
  /\ categories = EmptyCategories
  /\ activeCategory = "todos"
  /\ lastUpdate = 0
  /\ now = Now0
  /\ events = 0
  /\ store = StoreAbsent
  /\ runs = [r \in RunIds |-> IF r = 1 THEN StartedRun(TRUE) ELSE IdleRun]
  /\ loadingState = TRUE
  /\ view = "loading"
  /\ autoUpdateInterval = 0
  /\ timers = {}
  /\ hidden = FALSE
  /\ online = TRUE
  /\ unhandledRejection = FALSE
  /\ fileName = <<>>
  /\ returned = NoReturn

TimersNext ==
  \/ \E r \in RunIds : DelayElapses(r)
  \/ RefreshClick
  \/ VisibilityChange
  \/ OnlineEvent
  \/ OfflineEvent
  \/ \E t \in timers : TimerTick(t)
  \/ destroy
  \/ \E t \in TimerInstants : ClockReaches(t)

SpecTimers ==
  TimersInit /\ [][TimersNext]_vars

(***************************************************************************)
(* Properties of loadFiles                                                 *)
(***************************************************************************)
\* this.files is the static list: the descriptors carry no source tag
FromStaticList ==
  /\ Len(files) > 0
  /\ \A i \in 1..Len(files) : files[i].source = "none"

\* C1: in remote mode, when the fetch of loadFromGitHub ends in a network
\* error or a non-success status, the same run goes on to loadLocalFiles,
\* and when that run ends the catalog is not empty and the view is not the
\* error view
C1_FailureFallsBackToStaticList ==
  [][\A r \in RunIds :
       /\ (\E res \in FailureStatuses : FetchSettles(r, res))
            => runs'[r].pc = "delay"
       /\ (DelayElapses(r) /\ ~UsesLocalMethod)
            => /\ runs'[r].pc = "idle"
               /\ Len(files') > 0
               /\ view' # "error"]_vars

\* a remote session shows the static list
C1_Witness ==
  /\ ~UsesLocalMethod
  /\ lastUpdate # 0
  /\ FromStaticList
  /\ view = "grid"

\* C2: in remote mode a 404 of the listing endpoint ends the run at once
\* with an empty catalog: the run does not go on to the static list
C2_NotFoundEndsRunEmpty ==
  [][\A r \in RunIds :
       FetchSettles(r, "404") => (runs'[r].pc = "idle" /\ files' = <<>>)]_vars

\* C3: no loadFiles promise is ever rejected, whatever the remote source
\* answers and whatever the store holds or does on a write
C3_LoadFilesNeverRejects ==
  unhandledRejection = FALSE

\* a catalog was rendered although the write to the store failed and the
\* store holds text that does not parse
C3_Witness ==
  /\ storageFull
  /\ store = StoreGarbage
  /\ lastUpdate # 0
  /\ view = "grid"
  /\ InFlight = {}

\* the store holds an entry not older than the maximum age
FreshEntry ==
  /\ store.kind = "entry"
  /\ now - store.timestamp <= PersistedMaxAge

\* C4 as stated: once a load has completed, the catalog is empty only if
\* the static list is empty and the store holds no fresh entry
C4_EmptyOnlyWithoutData ==
  (lastUpdate # 0 /\ Len(files) = 0)
    => (Len(loadLocalFiles) = 0 /\ ~FreshEntry)

\* C4 amended: a run that loads the static list ends with a catalog that
\* is not empty, and a run that ends on a remote listing ends with an empty
\* catalog exactly when the listing holds no note file
C4_EmptyOnlyAfterEmptyListing ==
  [][\A r \in RunIds :
       /\ DelayElapses(r) => Len(files') > 0
       /\ \A data \in RemoteListings :
            JsonSettles(r, data)
              => (Len(files') = 0 <=> Len(GitHubFiles(data)) = 0)]_vars

\* a remote load has ended with an empty catalog
C4_Witness ==
  /\ ~UsesLocalMethod
  /\ lastUpdate # 0
  /\ Len(files) = 0
  /\ view = "empty"
  /\ InFlight = {}

\* C5: a loadFiles() call that finds the cache valid changes neither the
\* catalog, the buckets, activeCategory nor lastUpdate, starts no run and
\* leaves the store as it is
C5_CacheHitDoesNoIO ==
  [][(CallLoadFiles /\ isCacheValid)
       => UNCHANGED <<files, categories, activeCategory, lastUpdate,
                      runs, store>>]_vars

\* C6: isCacheValid, as getDebugInfo reports it, is true exactly when
\* lastUpdate is set, the catalog is not empty and less than 300000 ms have
\* passed since lastUpdate
C6_CacheValidExactlyWithinWindow ==
  getDebugInfo.cacheValid
    <=> (lastUpdate # 0 /\ Len(files) > 0 /\ now < lastUpdate + 300000)

\* exactly 300000 ms after a load of a catalog that is not empty the cache
\* is not valid any more
C6_Witness ==
  /\ lastUpdate # 0
  /\ Len(files) > 0
  /\ now = lastUpdate + 300000
  /\ ~getDebugInfo.cacheValid

\* C7: at most one loadFiles run is in flight
C7_SingleFlight ==
  Cardinality(InFlight) <= 1

\* C8: every run that waits for the fetch of the remote listing ends
C8_FetchingRunEnds ==
  \A r \in RunIds : (runs[r].pc = "fetch") ~> (runs[r].pc = "idle")

\* C9: a run that ends in the error outcome (the catch of loadFiles calls
\* renderError) with a catalog present when it started leaves files and
\* the category buckets as they were when it started
C9_ErrorRetainsSnapshot ==
  [][\A r \in RunIds :
       (/\ runs[r].pc # "idle"
        /\ runs'[r].pc = "idle"
        /\ view' = "error"
        /\ Len(runs[r].before) > 0)
         => (files' = runs[r].before /\ categories' = categories)]_vars

C36_LoadingExactlyWhileInFlight ==
  loadingState <=> (InFlight # {})

(***************************************************************************)
(* Properties of the execution context                                     *)
(***************************************************************************)
\* seg is the first non-empty segment of pathname
FirstSegment(pathname, seg) ==
  /\ Len(seg) > 0
  /\ \A i \in 1..Len(seg) : seg[i] # "/"
  /\ \E i \in 1..Len(pathname) :
       /\ \A j \in 1..(i - 1) : pathname[j] = "/"
       /\ MatchAt(pathname, seg, i)
       /\ CharAt(pathname, i + Len(seg)) \in {"/", ""}

\* C21: for a host <owner>.github.io extractRepoInfo returns remote mode
\* (isLocal false, useGitHubAPI true), the first host label as owner, and
\* as repo the first non-empty path segment or, without one,
\* <owner>.github.io
C21_GitHubPagesHostIsRemote ==
  (/\ currentRepo # NoRepo
   /\ endsWith(location.hostname, <<".","g","i","t","h","u","b",".","i","o">>))
    => /\ currentRepo.isLocal = FALSE
       /\ currentRepo.useGitHubAPI = TRUE
       /\ currentRepo.owner \o <<".","g","i","t","h","u","b",".","i","o">>
            = location.hostname
       /\ \/ FirstSegment(location.pathname, currentRepo.repo)
          \/ /\ \A i \in 1..Len(location.pathname) : location.pathname[i] = "/"
             /\ currentRepo.repo = location.hostname

\* C22: currentRepo is the value the constructor computed from the location
\* and no step (a load, a category switch, a timer tick, a visibility,
\* online or offline event, a cache clear, destroy) changes any field of it
C22_RepoNeverChanges ==
  [][/\ currentRepo' = currentRepo
     /\ currentRepo' = extractRepoInfo(location')]_vars

\* every event of the budget was handled and no run is in flight
C22_Witness ==
  /\ events = MaxEvents
  /\ InFlight = {}
  /\ lastUpdate # 0
  /\ currentRepo = extractRepoInfo(location)

(***************************************************************************)
(* Properties of the persisted entry                                       *)
(***************************************************************************)
\* C23: getCachedData returns the files of an entry only when now minus its
\* timestamp is at most 3600000 ms; for an older entry it returns null and
\* removes the entry, and a read of an empty store returns null
C23_OnlyFreshEntryIsReturned ==
  [][(CallGetCachedData /\ store.kind \in {"entry", "absent"})
       => IF store.kind = "entry" /\ now - store.timestamp <= PersistedMaxAge
            THEN /\ returned'.cached = Value(store.files)
                 /\ store' = store
            ELSE /\ returned'.cached = Null
                 /\ store' = StoreAbsent]_vars

\* an entry written in this session was read after its hour and is gone
C23_Witness ==
  /\ returned.wrote # NoWrite
  /\ now - returned.wrote.at > PersistedMaxAge
  /\ returned.cached = Null
  /\ store = StoreAbsent

\* C24: when the text under the key does not parse, or parses to something
\* without the structure {files, timestamp}, getCachedData returns null and
\* throws nothing
C24_MalformedEntryIsAMiss ==
  [][(CallGetCachedData
        /\ store.kind \in {"garbage", "null", "bare", "untimed"})
       => /\ returned'.cached = Null
          /\ ~unhandledRejection']_vars

\* C25: a setCachedData(d) that reaches the store replaces the entry by
\* {files: d, timestamp: now}; a getCachedData within one hour of the most
\* recent such write returns d; a write the store refuses throws nothing and
\* changes neither the store nor the catalog state
C25_LastWriteWins ==
  [][/\ \A d \in CacheData :
          CallSetCachedData(d)
            => /\ ~unhandledRejection'
               /\ UNCHANGED <<catalogVars, activeCategory, view, runs>>
               /\ IF storageFull THEN store' = store
                  ELSE store' = StoreEntry(d, now)
     /\ (/\ CallGetCachedData
         /\ returned.wrote # NoWrite
         /\ now - returned.wrote.at <= PersistedMaxAge)
          => returned'.cached = Value(returned.wrote.files)]_vars

\* the store held the entry of an earlier session, a write replaced it and
\* a read one hour after the write returned the written files
C25_Witness ==
  /\ returned.wrote # NoWrite
  /\ returned.wrote.files # <<FileRec(N_ACAO, "github-api")>>
  /\ now - returned.wrote.at = PersistedMaxAge
  /\ returned.cached = Value(returned.wrote.files)

\* C26: a run of loadFiles that ends with a catalog that is not empty, on a
\* store that accepts the write, leaves in the store an entry whose files
\* are the whole catalog, whatever the active category is
C26_CompletedLoadIsPersisted ==
  [][\A r \in RunIds :
       ((\/ DelayElapses(r)
         \/ \E data \in RemoteListings : JsonSettles(r, data))
        /\ Len(files') > 0
        /\ ~storageFull)
         => /\ store'.kind = "entry"
            /\ store'.files = files'
            /\ store'.timestamp = now]_vars

(***************************************************************************)
(* Properties of switchCategory                                            *)
(***************************************************************************)
\* C27: activeCategory is todos or a key of the category set
C27_ActiveCategoryIsKnown ==
  activeCategory \in {"todos"} \cup CategorySet

\* C28: switchCategory changes activeCategory only: files, the buckets and
\* lastUpdate stay, no run starts, and the store is left as it is
C28_SwitchCategoryIsPure ==
  [][\A k \in SwitchKeys :
       switchCategory(k)
         => UNCHANGED <<files, categories, lastUpdate, runs, store>>]_vars

\* C37: a step that loads nothing, a loadFiles() that finds the cache valid
\* or a switchCategory, leaves the timestamp of a persisted entry as it is
C37_TimestampIsLoadTime ==
  [][(/\ \/ CallLoadFiles /\ isCacheValid
         \/ \E k \in SwitchKeys : switchCategory(k)
      /\ store.kind = "entry")
       => /\ store'.kind = "entry"
          /\ store'.timestamp = store.timestamp]_vars

(***************************************************************************)
(* Properties of filterFiles                                               *)
(***************************************************************************)
\* t without the blanks at its ends
Trimmed(t) ==
  CHOOSE u \in {SubSeq(t, i, j) : i \in 1..(Len(t) + 1), j \in 0..Len(t)} :
    /\ \E a, b \in 0..Len(t) :
         /\ a + Len(u) + b = Len(t)
         /\ \A i \in 1..a : t[i] = " "
         /\ \A i \in 1..b : t[Len(t) + 1 - i] = " "
         /\ \A i \in 1..Len(u) : u[i] = t[a + i]
    /\ CharAt(u, 1) # " "
    /\ CharAt(u, Len(u)) # " "

\* s contains u when the case of the letters is ignored
ContainsIgnoringCase(s, u) ==
  \E i \in 1..(Len(s) - Len(u) + 1) :
    \A j \in 1..Len(u) : ToUpperChar(s[i + j - 1]) = ToUpperChar(u[j])

\* the members of the active category whose name or card text contains the
\* trimmed term
Matching(searchTerm) ==
  SelectSeq(getActiveFiles(files, categories, activeCategory),
            LAMBDA f :
              \/ ContainsIgnoringCase(f.name, Trimmed(searchTerm))
              \/ ContainsIgnoringCase(createFileCard(f).textContent,
                                      Trimmed(searchTerm)))

\* C29: filterFiles(term) leaves visible exactly the members of the active
\* category whose name or card text contains the trimmed term, whatever the
\* case, and reports their number; a term that is empty once trimmed leaves
\* every member of the active category visible; files, the buckets and
\* activeCategory are unchanged
C29_SearchSelectsActiveMatches ==
  [][\A t \in SearchTerms :
       CallFilterFiles(t)
         => /\ returned'.shown = MapSeq(Matching(t), LAMBDA f : f.name)
            /\ Trimmed(t) # <<>> => returned'.count = Len(Matching(t))
            /\ UNCHANGED <<files, categories, activeCategory>>]_vars

(***************************************************************************)
(* Properties of the periodic refresh                                      *)
(***************************************************************************)
\* C30: while the page is hidden or the device is offline no interval timer
\* is alive and no timer callback starts a run
C30_RefreshPausedWhileHiddenOrOffline ==
  [][/\ (hidden' \/ ~online') => timers' = {}
     /\ \A t \in timers :
          (TimerTick(t) /\ (hidden \/ ~online)) => runs' = runs]_vars

\* C31: once destroy() has returned no interval timer is alive, and no
\* timer callback starts a run
C31_DestroyReleasesTimers ==
  [][/\ returned'.destroyed => timers' = {}
     /\ \A t \in timers :
          (TimerTick(t) /\ returned.destroyed) => runs' = runs]_vars

\* C33: a timer callback that runs while the page is visible, the device is
\* online and no run is in flight starts a run and shows the loading view
C33_TickStartsReload ==
  [][\A t \in timers :
       (TimerTick(t) /\ ~hidden /\ online /\ InFlight = {})
         => /\ InFlight' # {}
            /\ view' = "loading"
            /\ loadingState']_vars

\* C34: at most one interval timer is alive, and the handle of every
\* timer that is alive is the one stored in autoUpdateInterval
C34_SingleTimer ==
  /\ Cardinality(timers) <= 1
  /\ \A t \in timers : t.id = autoUpdateInterval

(***************************************************************************)
(* Properties of detectFileCategory and extractFileNumber                  *)
(***************************************************************************)
IsAlnum(c) ==
  IsLetter(c) \/ IsDigit(c)

\* the code occurs in u at position i with no letter or digit on either side
DelimitedAt(u, code, i) ==
  /\ MatchAt(u, code, i)
  /\ ~IsAlnum(CharAt(u, i - 1))
  /\ ~IsAlnum(CharAt(u, i + Len(code)))

Delimited(u, code) ==
  \E i \in 1..Len(u) : DelimitedAt(u, code, i)

\* one of the five literal shapes of code k is in u
HasShape(u, k) ==
  \/ includes(u, <<"_">> \o KeyChars[k] \o <<"_">>)
  \/ includes(u, <<"-">> \o KeyChars[k] \o <<"-">>)
  \/ includes(u, <<" ">> \o KeyChars[k] \o <<" ">>)
  \/ startsWith(u, KeyChars[k] \o <<"_">>)
  \/ startsWith(u, KeyChars[k] \o <<"-">>)

PriorityOrder ==
  <<"DPP", "DC", "DA", "RLM", "PT", "MT", "DP", "INF">>

\* C11: detectFileCategory returns one key of {DPP, DC, DA, RLM, PT, MT, DP,
\* INF, GERAL}, which is a key of the categories table, never undefined, and
\* GERAL exactly when no code of the priority list matches
C11_CategoryIsTotal ==
  returned.category # "none" =>
    /\ returned.category \in
         {"DPP", "DC", "DA", "RLM", "PT", "MT", "DP", "INF", "GERAL"}
    /\ returned.category \in DOMAIN categories
    /\ (returned.category = "GERAL") <=>
         (\A i \in 1..Len(PriorityOrder) :
            ~HasShape(toUpperCase(fileName), PriorityOrder[i]))

C11_Witness ==
  /\ returned.category = "GERAL"
  /\ includes(toUpperCase(fileName), <<"D","C">>)

\* C12: detectFileCategory returns the first code, in the order DPP, DC, DA,
\* RLM, PT, MT, DP, INF, that has one of its shapes in the uppercased name,
\* wherever the shapes sit; a name that contains _DPP_ is DPP, never DP
C12_FirstCodeInPriorityWins ==
  returned.category # "none" =>
    /\ \A i \in 1..Len(PriorityOrder) :
         (/\ HasShape(toUpperCase(fileName), PriorityOrder[i])
          /\ \A j \in 1..(i - 1) :
               ~HasShape(toUpperCase(fileName), PriorityOrder[j]))
           => returned.category = PriorityOrder[i]
    /\ includes(fileName, <<"_","D","P","P","_">>)
         => returned.category = "DPP"

C12_Witness ==
  /\ returned.category = "DPP"
  /\ includes(fileName, <<"_","D","P","_">>)
  /\ \E i, j \in 1..Len(fileName) :
       /\ i < j
       /\ MatchAt(fileName, <<"_","D","P","_">>, i)
       /\ MatchAt(fileName, <<"_","D","P","P","_">>, j)

\* C13: a code that occurs in the uppercased name between two separators
\* or string boundaries, whatever the separators, is detected: the name is
\* not left in GERAL
C13_DelimitedCodeIsDetected ==
  returned.category # "none" =>
    ((\E i \in 1..Len(PriorityOrder) :
        Delimited(toUpperCase(fileName), KeyChars[PriorityOrder[i]]))
       => returned.category # "GERAL")

\* C14: when every occurrence of every code in the uppercased name has a
\* letter or a digit next to it, the name is GERAL
C14_EmbeddedCodeIsIgnored ==
  returned.category # "none" =>
    ((\A i \in 1..Len(PriorityOrder) :
        ~Delimited(toUpperCase(fileName), KeyChars[PriorityOrder[i]]))
       => returned.category = "GERAL")

C14_Witness ==
  /\ returned.category = "GERAL"
  /\ \E k \in {"DC", "DP", "INF"} :
       /\ includes(toUpperCase(fileName), KeyChars[k])
       /\ ~Delimited(toUpperCase(fileName), KeyChars[k])
  /\ \A i \in 1..Len(PriorityOrder) :
       ~Delimited(toUpperCase(fileName), KeyChars[PriorityOrder[i]])

\* the positions of baseName at which pattern k of extractFileNumber matches
PatternHits(baseName, k) ==
  {i \in 1..Len(baseName) :
     CASE k = 1 -> P1At(baseName, i)
       [] k = 2 -> P2At(baseName, i)
       [] k = 3 -> P3At(baseName, i)
       [] k = 4 -> P4At(baseName, i)
       [] k = 5 -> P5At(baseName, i)}

\* the number pattern k captures at its leftmost match
PatternNumber(baseName, k) ==
  LET i == SetMin(PatternHits(baseName, k))
  IN  CASE k = 1 -> P1Num(baseName, i)
        [] k = 2 -> P2Num(baseName, i)
        [] k = 3 -> P3Num(baseName, i)
        [] k \in {4, 5} -> ParseInt(baseName, i, DigitRunLen(baseName, i))

E_DC005 ==
  <<"2","0","2","5","_","0","6","_","2","5","_","D","C","_","0","0","5",
    "-"," ","T",".","h","t","m","l">>

E_FILE042 ==
  <<"f","i","l","e","-","0","4","2",".","h","t","m","l">>

\* C15: extractFileNumber returns the number captured by the first of its
\* five patterns, in the listed order, that matches, the number group for
\* a pattern with two groups; 2025_06_25_DC_005- T.html gives 5 and
\* file-042.html gives 42
C15_FirstPatternWins ==
  returned.number # -1 =>
    /\ \A k \in 1..5 :
         (/\ PatternHits(StripExtension(fileName), k) # {}
          /\ \A j \in 1..(k - 1) : PatternHits(StripExtension(fileName), j) = {})
           => returned.number = PatternNumber(StripExtension(fileName), k)
    /\ fileName = E_DC005 => returned.number = 5
    /\ fileName = E_FILE042 => returned.number = 42

C15_Witness ==
  /\ fileName = E_DC005
  /\ returned.number = 5

\* C16: extractFileNumber returns a non-negative integer for every name:
\* without a match of the five patterns the value of the first run of
\* digits of the name without its extension, and 9999 without any digit
C16_NumberIsTotal ==
  returned.number # -1 =>
    LET baseName == StripExtension(fileName)
        digits == {i \in 1..Len(baseName) : IsDigit(baseName[i])}
    IN  /\ returned.number \in Nat
        /\ (\A k \in 1..5 : PatternHits(baseName, k) = {}) =>
             returned.number =
               IF digits = {} THEN 9999
               ELSE ParseInt(baseName, SetMin(digits),
                             DigitRunLen(baseName, SetMin(digits)))

C16_Witness ==
  /\ returned.number = 7
  /\ \A k \in 1..5 : PatternHits(StripExtension(fileName), k) = {}

(***************************************************************************)
(* Properties of categorizeFiles                                           *)
(***************************************************************************)
\* every order in which the records of s can be delivered
DeliveryOrders(s) ==
  {[i \in 1..Len(s) |-> s[f[i]]] :
     f \in {g \in [1..Len(s) -> 1..Len(s)] :
              \A i, j \in 1..Len(s) : g[i] = g[j] => i = j}}

\* C17: after categorizeFiles each bucket is ordered by numericOrder
\* ascending and, for equal numericOrder, by name ascending, and whatever
\* the order in which the source delivers the same names, the buckets come
\* out the same
C17_BucketsOrderedByNumberThenName ==
  [][CallCategorizeFiles =>
       /\ \A k \in CategorySet :
            \A i, j \in 1..Len(categories'[k]) :
              i < j =>
                LET a == categories'[k][i]
                    b == categories'[k][j]
                IN  \/ a.numericOrder < b.numericOrder
                    \/ /\ a.numericOrder = b.numericOrder
                       /\ localeCompare(a.name, b.name) <= 0
       /\ \A p \in DeliveryOrders(files) :
            categorizeFiles(p).categories = categories']_vars

\* two notes without a number share a bucket, in the order of their names
C17_Witness ==
  /\ Len(categories["GERAL"]) = 2
  /\ categories["GERAL"][1].numericOrder = categories["GERAL"][2].numericOrder
  /\ categories["GERAL"][1].name = N_ACAO
  /\ categories["GERAL"][2].name = N_EXEMPLO

\* C18: after a completed load the flat catalog files is ordered by category
\* key ascending and, within one category, by numericOrder ascending,
\* whether the list came from the static path or from the remote path
C18_FlatCatalogOrdered ==
  lastUpdate # 0 =>
    \A i, j \in 1..Len(files) :
      i < j =>
        LET categoryA == categoryOf[files[i].name]
            categoryB == categoryOf[files[j].name]
        IN  /\ localeCompare(KeyChars[categoryA], KeyChars[categoryB]) <= 0
            /\ categoryA = categoryB =>
                 numberOf[files[i].name] <= numberOf[files[j].name]

\* a remote listing of three notes of two categories has been loaded
C18_Witness ==
  /\ lastUpdate # 0
  /\ Len(files) = 3
  /\ \A i \in 1..3 : files[i].source = "github-api"
  /\ categoryOf[files[1].name] = "DPP"
  /\ categoryOf[files[3].name] = "GERAL"

\* C35: after a completed load two records of files with the same category
\* and the same number stand in the order of their names
C35_FlatTiesOrderedByName ==
  lastUpdate # 0 =>
    \A i, j \in 1..Len(files) :
      (/\ i < j
       /\ categoryOf[files[i].name] = categoryOf[files[j].name]
       /\ numberOf[files[i].name] = numberOf[files[j].name])
        => localeCompare(files[i].name, files[j].name) <= 0

HoldsCategoryAndNumber(rec) ==
  /\ {"category", "numericOrder"} \subseteq DOMAIN rec
  /\ rec.category \in CategorySet
  /\ rec.numericOrder \in Nat

UnknownHost(loc) ==
  /\ loc.hostname # <<"l","o","c","a","l","h","o","s","t">>
  /\ loc.hostname # <<"1","2","7",".","0",".","0",".","1">>
  /\ ~includes(loc.hostname, <<"l","o","c","a","l">>)
  /\ ~endsWith(loc.hostname, <<".","g","i","t","h","u","b",".","i","o">>)

\* C20: on a host that is neither local nor <owner>.github.io the context
\* does not use the remote source and no run ever waits for the remote
\* listing
C20_UnknownHostNeverFetches ==
  UnknownHost(location) =>
    /\ "useGitHubAPI" \in DOMAIN currentRepo => ~currentRepo.useGitHubAPI
    /\ "useGitHubAPI" \notin DOMAIN currentRepo => currentRepo.isLocal
    /\ \A r \in RunIds : runs[r].pc \notin {"fetch", "json"}

\* number of records of s that carry the name n
Count(s, n) ==
  Cardinality({i \in 1..Len(s) : s[i].name = n})

\* C10: the buckets partition the catalog: every record of files is in the
\* bucket of its category as often as in files and in no other bucket, no
\* bucket holds anything else, and the bucket sizes add up to the length of
\* files
C10_BucketsPartitionCatalog ==
  /\ \A n \in NamePool, k \in CategorySet :
       Count(categories[k], n) =
         IF k = categoryOf[n] THEN Count(files, n) ELSE 0
  /\ \A k \in CategorySet :
       \A i \in 1..Len(categories[k]) :
         /\ categories[k][i].name \in NamePool
         /\ categories[k][i].category = k
  /\ Cardinality(UNION {{<<k, i>> : i \in 1..Len(categories[k])} :
                           k \in CategorySet}) = Len(files)

\* the store holds the catalog an earlier load of this session rendered,
\* and a later load has replaced the catalog by another one
C10_Witness ==
  /\ store.kind = "entry"
  /\ store.timestamp >= Now0
  /\ Len(store.files) > 0
  /\ Len(files) > 0
  /\ store.files # files
  /\ Cardinality({k \in CategorySet : categories[k] # <<>>}) >= 2

====
